---- MODULE Spec2Model ----
(***************************************************************************)
(* A model of project-structure.js: the directory walk (getAllFiles), the  *)
(* ASCII tree (generateTree), the report (generateStructure) and the run   *)
(* that saves it (executeGenerator).                                       *)
(*                                                                         *)
(* A JavaScript string is a sequence of characters, each a one-character   *)
(* TLA+ string; the four box-drawing characters of the tree are written    *)
(* by their code points ("U+2502" is the vertical bar, "U+251C" the tee,   *)
(* "U+2514" the corner, "U+2500" the dash; "U+0060" is the backquote).  A   *)
(* path is such a string, with "/" between its segments, exactly as        *)
(* path.join builds it.                                                    *)
(***************************************************************************)
EXTENDS Integers, Sequences, FiniteSets, TLC

VARIABLES
  fs,            \* the directory tree under the scan root: path -> node
  options,       \* the options object passed to executeGenerator
  readdirOrder,  \* the order fs.readdirSync enumerates a directory in
  pc,            \* position of executeGenerator
  output,        \* generateStructure's `output` array
  treeLines,     \* what generateTree returned, each line with its entry's path
  files,         \* generateStructure's `files` array
  index,         \* position of files.forEach
  structure,     \* the string generateStructure returned
  dirsRead,      \* directories fs.readdirSync was called on
  filesRead,     \* files whose bytes fs.readFileSync returned
  writes,        \* the calls of fs.writeFileSync, each the string written
  console,       \* the lines console.log printed
  faults         \* how many files the environment removed or locked

vars == <<fs, options, readdirOrder, pc, output, treeLines, files, index,
          structure, dirsRead, filesRead, writes, console, faults>>

----------------------------------------------------------------------------
(* Strings *)

\* The printable ASCII characters in code order, from 32 (space) to 126.
Ascii == <<" ","!","\"","#","$","%","&","'","(",")","*","+",",","-",".","/","0","1","2","3","4","5","6","7","8","9",":",";","<","=",">","?","@","A","B","C","D","E","F","G","H","I","J","K","L","M","N","O","P","Q","R","S","T","U","V","W","X","Y","Z","[","\\","]","^","_","U+0060","a","b","c","d","e","f","g","h","i","j","k","l","m","n","o","p","q","r","s","t","u","v","w","x","y","z","{","|","}","~">>

\* The UTF-16 code unit of a character.
Code(c) ==
  IF c = "\n" THEN 10
  ELSE IF c = "U+2500" THEN 9472
  ELSE IF c = "U+2502" THEN 9474
  ELSE IF c = "U+2514" THEN 9492
  ELSE IF c = "U+251C" THEN 9500
  ELSE 31 + (CHOOSE i \in 1..Len(Ascii) : Ascii[i] = c)

\* a < b as JavaScript compares strings: by code units, a prefix first.
LessStr(a, b) ==
  LET n == IF Len(a) < Len(b) THEN Len(a) ELSE Len(b)
      diff == {i \in 1..n : a[i] # b[i]}
  IN IF diff = {} THEN Len(a) < Len(b)
     ELSE LET k == CHOOSE i \in diff : \A j \in diff : i <= j
          IN Code(a[k]) < Code(b[k])

\* String.prototype.toLowerCase, on the ASCII letters.
LowerChar(c) ==
  IF Code(c) >= 65 /\ Code(c) <= 90 THEN Ascii[Code(c) + 32 - 31] ELSE c

toLowerCase(s) == [i \in 1..Len(s) |-> LowerChar(s[i])]

\* String.prototype.includes.
StrIncludes(s, sub) ==
  \E i \in 0..(Len(s) - Len(sub)) : SubSeq(s, i + 1, i + Len(sub)) = sub

\* Array.prototype.includes.
ArrIncludes(arr, x) == \E i \in 1..Len(arr) : arr[i] = x

\* Array.prototype.sort with no comparator: ascending by code units.
RECURSIVE sort(_)
sort(arr) ==
  IF arr = <<>> THEN <<>>
  ELSE LET x == Head(arr)
           rest == sort(Tail(arr))
           k == Cardinality({i \in 1..Len(rest) : ~LessStr(x, rest[i])})
       IN SubSeq(rest, 1, k) \o <<x>> \o SubSeq(rest, k + 1, Len(rest))

\* Array.prototype.join.
RECURSIVE ArrJoin(_, _)
ArrJoin(arr, sep) ==
  IF arr = <<>> THEN <<>>
  ELSE IF Len(arr) = 1 THEN arr[1]
  ELSE arr[1] \o sep \o ArrJoin(Tail(arr), sep)

LastIndexOf(s, c) ==
  LET at == {i \in 1..Len(s) : s[i] = c}
  IN IF at = {} THEN 0 ELSE CHOOSE i \in at : \A j \in at : j <= i

----------------------------------------------------------------------------
(* path *)

\* path.basename: what follows the last "/".
basename(p) == SubSeq(p, LastIndexOf(p, "/") + 1, Len(p))

\* path.dirname: what precedes the last "/", "." for a name at the root.
dirname(p) ==
  IF LastIndexOf(p, "/") = 0 THEN <<".">> ELSE SubSeq(p, 1, LastIndexOf(p, "/") - 1)

\* path.join(dir, file) for a directory path and an entry name: joining "."
\* and a name normalises to the bare name.
PathJoin(dir, file) == IF dir = <<".">> THEN file ELSE dir \o <<"/">> \o file

\* path.extname: from the last "." of the base name to its end; empty when
\* there is no ".", when the only "." is the first character, and for "..".
extname(p) ==
  LET b == basename(p)
      d == LastIndexOf(b, ".")
  IN IF d = 0 \/ d = 1 \/ b = <<".",".">> THEN <<>> ELSE SubSeq(b, d, Len(b))

\* path.basename(__filename): the name of the tool's own source file.
SelfName == <<"p","r","o","j","e","c","t","-","s","t","r","u","c","t","u","r","e",".","j","s">>

----------------------------------------------------------------------------
(* Configuration *)

DEFAULT_CONFIG ==
  [excludeDirs |-> <<<<"n","o","d","e","_","m","o","d","u","l","e","s">>, <<".","g","i","t">>, <<".","v","s","c","o","d","e">>, <<".","i","d","e","a">>, <<".","v","e","n","v">>, <<"_","_","p","y","c","a","c","h","e","_","_">>>>,
   excludeFiles |-> <<<<"p","a","c","k","a","g","e","-","l","o","c","k",".","j","s","o","n">>, <<"y","a","r","n",".","l","o","c","k">>, <<".","e","n","v">>>>,
   textExtensions |-> <<<<".","j","s">>, <<".","h","t","m","l">>, <<".","c","s","s">>, <<".","j","s","o","n">>, <<".","m","d">>, <<".","t","x","t">>, <<".","s","q","l">>, <<".","t","s">>,
                        <<".","j","s","x">>, <<".","t","s","x">>, <<".","y","a","m","l">>, <<".","y","m","l">>, <<".","p","y">>, <<".","e","n","v">>, <<".","g","i","t","i","g","n","o","r","e">>, <<".","t","o","m","l">>>>,
   outputFile |-> <<"p","r","o","j","e","c","t","-","s","t","r","u","c","t","u","r","e",".","t","x","t">>]

\* { ...DEFAULT_CONFIG, ...options }: a shallow merge, key by key.
config ==
  [k \in DOMAIN DEFAULT_CONFIG |->
     IF k \in DOMAIN options THEN options[k] ELSE DEFAULT_CONFIG[k]]

----------------------------------------------------------------------------
(* fs *)

\* The root of the scan: generateStructure's projectRoot.
projectRoot == <<".">>

isDirectory(p) == fs[p].kind = "dir"

isFile(p) == fs[p].kind = "file"

RECURSIVE Ascending(_)
Ascending(S) ==
  IF S = {} THEN <<>>
  ELSE LET m == CHOOSE x \in S : \A y \in S : x = y \/ LessStr(x, y)
       IN <<m>> \o Ascending(S \ {m})

Reverse(s) == [i \in 1..Len(s) |-> s[Len(s) + 1 - i]]

\* fs.readdirSync(dir): the names of dir's entries, in the order the file
\* system enumerates them (which no caller may rely on).
readdirSync(dir) ==
  LET names == {basename(p) : p \in {q \in DOMAIN fs : dirname(q) = dir}}
  IN IF readdirOrder = "ascending" THEN Ascending(names)
     ELSE Reverse(Ascending(names))

\* Whether fs.readdirSync(dir) throws: dir is there but may not be listed.
readdirThrows(dir) == dir \in DOMAIN fs /\ fs[dir].mode = "denied"

\* Whether fs.readFileSync(p, 'utf8') throws: p is gone, or may not be read.
readFileThrows(p) == p \notin DOMAIN fs \/ fs[p].mode = "denied"

\* err.message of the error fs.readFileSync throws, by its code.
readFileMessage(p) == IF p \notin DOMAIN fs THEN <<"E","N","O","E","N","T">> ELSE <<"E","A","C","C","E","S">>

\* The directories read before a throw ended the walk: those up to and
\* including the first that could not be listed, all of them otherwise.
ReadUntilThrow(reads) ==
  LET bad == {i \in 1..Len(reads) : readdirThrows(reads[i])}
  IN IF bad = {} THEN reads
     ELSE SubSeq(reads, 1, CHOOSE i \in bad : \A j \in bad : i <= j)

Range(s) == {s[i] : i \in 1..Len(s)}

----------------------------------------------------------------------------
(* getAllFiles *)

\* The accumulator is fileList, with the directories listed on the way.
RECURSIVE getAllFiles(_, _), getAllFilesEach(_, _, _, _)
getAllFilesEach(dir, entries, i, acc) ==
  IF i > Len(entries) THEN acc
  ELSE LET file == entries[i]
           filePath == PathJoin(dir, file)
           next == IF isDirectory(filePath)
                   THEN IF ~ArrIncludes(config.excludeDirs, file)
                        THEN getAllFiles(filePath, acc)
                        ELSE acc
                   ELSE [acc EXCEPT !.fileList = Append(@, filePath)]
       IN getAllFilesEach(dir, entries, i + 1, next)

getAllFiles(dir, acc) ==
  getAllFilesEach(dir, readdirSync(dir), 1, [acc EXCEPT !.read = Append(@, dir)])

----------------------------------------------------------------------------
(* getFileType *)

getFileType(filePath) ==
  IF ArrIncludes(config.textExtensions, toLowerCase(extname(filePath)))
  THEN "text" ELSE "binary"

----------------------------------------------------------------------------
(* generateTree *)

Corner == <<"U+2514","U+2500","U+2500"," ">>

Tee == <<"U+251C","U+2500","U+2500"," ">>

\* TreeDirs had line 66 left out the excludeDirs test.
TreeDirsUnfiltered(dir) ==
  LET keep(f) == isDirectory(PathJoin(dir, f))
  IN sort(SelectSeq(readdirSync(dir), keep))

\* The immediate children of dir that are directories and not excluded,
\* sorted.
TreeDirs(dir) ==
  LET keep(f) == isDirectory(PathJoin(dir, f)) /\ ~ArrIncludes(config.excludeDirs, f)
  IN sort(SelectSeq(readdirSync(dir), keep))

\* The immediate children of dir that are files, not excluded and not the
\* tool's own source, sorted.
TreeFileNames(dir) ==
  LET keep(f) == /\ isFile(PathJoin(dir, f))
                 /\ ~ArrIncludes(config.excludeFiles, f)
                 /\ f # SelfName
  IN sort(SelectSeq(readdirSync(dir), keep))

\* ChildPrefix had line 86 taken the two extensions the other way round.
ChildPrefixSwapped(prefix, isLast) == prefix \o (IF isLast THEN <<"U+2502"," "," "," ">> ELSE <<" "," "," "," ">>)

\* The prefix generateTree recurses with below a directory child.
ChildPrefix(prefix, isLast) == prefix \o (IF isLast THEN <<" "," "," "," ">> ELSE <<"U+2502"," "," "," ">>)

\* One line of the tree is `${prefix}${glyph}${name}`; its parts are kept
\* apart, with the path of the entry it stands for.
TreeLine(prefix, isLast, name, path, isDir) ==
  [prefix |-> prefix, glyph |-> IF isLast THEN Corner ELSE Tee,
   name |-> name, path |-> path, isDir |-> isDir]

LineText(l) == l.prefix \o l.glyph \o l.name

\* FileLines had line 78 left out `dirs.length === 0`.
FileLinesLastOfFiles(dir, prefix, fileNames, dirs) ==
  [i \in 1..Len(fileNames) |->
     [prefix |-> prefix, glyph |-> IF i = Len(fileNames) THEN <<"U+2514","U+2500","U+2500"," ">> ELSE <<"U+251C","U+2500","U+2500"," ">>,
      name |-> fileNames[i], path |-> PathJoin(dir, fileNames[i]), isDir |-> FALSE]]

FileLines(dir, prefix, fileNames, dirs) ==
  [i \in 1..Len(fileNames) |->
     TreeLine(prefix, i = Len(fileNames) /\ Len(dirs) = 0, fileNames[i],
              PathJoin(dir, fileNames[i]), FALSE)]

RECURSIVE generateTree(_, _), DirLines(_, _, _, _)
DirLines(dir, prefix, dirs, i) ==
  IF i > Len(dirs) THEN <<>>
  ELSE LET isLast == i = Len(dirs)
           path == PathJoin(dir, dirs[i])
       IN <<TreeLine(prefix, isLast, dirs[i] \o <<"/">>, path, TRUE)>>
          \o generateTree(path, ChildPrefix(prefix, isLast))
          \o DirLines(dir, prefix, dirs, i + 1)

generateTree(dir, prefix) ==
  LET dirs == TreeDirs(dir)
      fileNames == TreeFileNames(dir)
  IN FileLines(dir, prefix, fileNames, dirs) \o DirLines(dir, prefix, dirs, 1)

\* The directories generateTree lists, in order: the one it is called on,
\* then each directory child as its line is emitted.
TreeReads(lines) ==
  <<projectRoot>> \o
  LET dirLines == SelectSeq(lines, LAMBDA l : l.isDir)
  IN [i \in 1..Len(dirLines) |-> dirLines[i].path]

----------------------------------------------------------------------------
(* generateStructure, step by step *)

Placeholder == <<"[","B","I","N","A","R","Y"," ","F","I","L","E"," ","-"," ","C","O","N","T","E","N","T"," ","N","O","T"," ","D","I","S","P","L","A","Y","E","D","]">>

Separator == <<"-","-","-","-","-","-","-","-","-","-","-","-","-","-","-","-","-","-","-","-","-","-","-","-","-","-","-","-","-","-","-","-","-","-","-","-","-","-","-","-">>

\* Lines 103-110: the banner and the label of the tree section.
HeaderLines ==
  <<<<"=","=","=","=","=","=","=","=","=","=","=","=","=","=","=","=","=","=","=","=","=","=","=","=","=","=","=","=","=","=","=","=","=","=","=","=">>,
    <<"P","R","O","J","E","C","T"," ","S","T","R","U","C","T","U","R","E"," ","A","N","D"," ","C","O","N","T","E","N","T","S">>,
    <<"=","=","=","=","=","=","=","=","=","=","=","=","=","=","=","=","=","=","=","=","=","=","=","=","=","=","=","=","=","=","=","=","=","=","=","=">>,
    <<>>,
    <<"P","R","O","J","E","C","T"," ","S","T","R","U","C","T","U","R","E",":">>,
    <<"=","=","=","=","=","=","=","=","=","=","=","=","=","=","=","=","=","=">>>>

\* Lines 115-117: the label of the contents section.
ContentsLabel == <<<<"F","I","L","E"," ","C","O","N","T","E","N","T","S",":">>, <<"=","=","=","=","=","=","=","=","=","=","=","=","=","=">>, <<>>>>

\* Lines 98-112: the header, then generateTree from the root; a directory
\* that cannot be listed throws out of generateStructure.
GenerateTreeSection ==
  /\ pc = "start"
  /\ LET lines == generateTree(projectRoot, <<>>)
         reads == TreeReads(lines)
     IN /\ dirsRead' = dirsRead \cup Range(ReadUntilThrow(reads))
        /\ IF \E i \in 1..Len(reads) : readdirThrows(reads[i])
           THEN /\ pc' = "failed"
                /\ UNCHANGED <<output, treeLines>>
           ELSE /\ pc' = "collect"
                /\ treeLines' = lines
                /\ output' = HeaderLines
                             \o [i \in 1..Len(lines) |-> LineText(lines[i])]
                             \o <<<<>>>>
  /\ UNCHANGED <<fs, options, readdirOrder, files, index, structure,
                 filesRead, writes, console, faults>>

\* Lines 121-127: the three filters of the collected paths.
NotInExcludedDir(file) ==
  ~\E i \in 1..Len(config.excludeDirs) : StrIncludes(file, config.excludeDirs[i])

\* NotExcludedFile had line 125 compared the whole path with each name, as
\* line 126 does with the tool's own name.
NotExcludedFileExact(file) == ~ArrIncludes(config.excludeFiles, file)

NotExcludedFile(file) ==
  ~\E i \in 1..Len(config.excludeFiles) : StrIncludes(file, config.excludeFiles[i])

NotSelf(file) == file # SelfName

FilterFiles(fileList) ==
  sort(SelectSeq(SelectSeq(SelectSeq(fileList, NotInExcludedDir), NotExcludedFile),
                 NotSelf))

\* Lines 115-127: the label, then getAllFiles from the root, filtered and
\* sorted; a directory that cannot be listed throws out of generateStructure.
CollectFiles ==
  /\ pc = "collect"
  /\ LET acc == getAllFiles(projectRoot, [fileList |-> <<>>, read |-> <<>>])
     IN /\ dirsRead' = dirsRead \cup Range(ReadUntilThrow(acc.read))
        /\ IF \E i \in 1..Len(acc.read) : readdirThrows(acc.read[i])
           THEN /\ pc' = "failed"
                /\ UNCHANGED <<output, files, index>>
           ELSE /\ pc' = "files"
                /\ output' = output \o ContentsLabel
                /\ files' = FilterFiles(acc.fileList)
                /\ index' = 1
  /\ UNCHANGED <<fs, options, readdirOrder, treeLines, structure, filesRead,
                 writes, console, faults>>

\* FileBody had the catch of lines 141-143 pushed nothing of its own.
FileBodyNoErrorLine(filePath) ==
  IF getFileType(filePath) = "text"
  THEN IF readFileThrows(filePath) THEN <<>> ELSE fs[filePath].content
  ELSE <<"[","B","I","N","A","R","Y"," ","F","I","L","E"," ","-"," ","C","O","N","T","E","N","T"," ","N","O","T"," ","D","I","S","P","L","A","Y","E","D","]">>

\* FileBody had line 137 pushed the content without its final newline.
FileBodyTrimmed(filePath) ==
  IF getFileType(filePath) = "text"
  THEN IF readFileThrows(filePath)
       THEN <<"[","E","R","R","O","R"," ","R","E","A","D","I","N","G"," ","F","I","L","E",":"," ">> \o readFileMessage(filePath) \o <<"]">>
       ELSE LET content == fs[filePath].content
            IN IF content # <<>> /\ content[Len(content)] = "\n"
               THEN SubSeq(content, 1, Len(content) - 1) ELSE content
  ELSE <<"[","B","I","N","A","R","Y"," ","F","I","L","E"," ","-"," ","C","O","N","T","E","N","T"," ","N","O","T"," ","D","I","S","P","L","A","Y","E","D","]">>

\* Lines 134-143: what stands for the content of filePath in its block.
FileBody(filePath) ==
  IF getFileType(filePath) = "text"
  THEN IF readFileThrows(filePath)
       THEN <<"[","E","R","R","O","R"," ","R","E","A","D","I","N","G"," ","F","I","L","E",":"," ">> \o readFileMessage(filePath) \o <<"]">>
       ELSE fs[filePath].content
  ELSE Placeholder

\* Lines 131-146: the five pushes of one file.
FileBlock(filePath) ==
  <<<<"F","I","L","E",":"," ">> \o filePath, Separator, FileBody(filePath), <<>>, <<>>>>

\* Lines 130-147: one round of files.forEach.
ProcessFile ==
  /\ pc = "files"
  /\ index <= Len(files)
  /\ output' = output \o FileBlock(files[index])
  /\ filesRead' = IF getFileType(files[index]) = "text" /\ ~readFileThrows(files[index])
                  THEN filesRead \cup {files[index]} ELSE filesRead
  /\ index' = index + 1
  /\ UNCHANGED <<fs, options, readdirOrder, pc, treeLines, files, structure,
                 dirsRead, writes, console, faults>>

\* Line 149 and line 158: the report, joined, is returned to executeGenerator.
ReturnStructure ==
  /\ pc = "files"
  /\ index > Len(files)
  /\ structure' = ArrJoin(output, <<"\n">>)
  /\ pc' = "write"
  /\ UNCHANGED <<fs, options, readdirOrder, output, treeLines, files, index,
                 dirsRead, filesRead, writes, console, faults>>

----------------------------------------------------------------------------
(* executeGenerator *)

FileNode(content) == [kind |-> "file", content |-> content, mode |-> "ok"]

DirNode(mode) == [kind |-> "dir", content |-> <<>>, mode |-> mode]

\* The tree with path p holding node.
WithEntry(tree, p, node) ==
  [q \in DOMAIN tree \cup {p} |-> IF q = p THEN node ELSE tree[q]]

\* Line 159: fs.writeFileSync(config.outputFile, structure) returns.
WriteFile ==
  /\ pc = "write"
  /\ fs' = WithEntry(fs, config.outputFile, FileNode(structure))
  /\ writes' = Append(writes, structure)
  /\ pc' = "log1"
  /\ UNCHANGED <<options, readdirOrder, output, treeLines, files, index,
                 structure, dirsRead, filesRead, console, faults>>

\* WriteFileThrows had executeGenerator caught the error and gone on to
\* line 161.
WriteFileThrowsSwallowed ==
  /\ pc = "write"
  /\ \/ fs' = fs
     \/ fs' = [q \in DOMAIN fs \cup {config.outputFile} |->
                IF q = config.outputFile
                THEN [kind |-> "file", content |-> <<>>, mode |-> "ok"] ELSE fs[q]]
  /\ writes' = Append(writes, structure)
  /\ pc' = "log1"
  /\ UNCHANGED <<options, readdirOrder, output, treeLines, files, index,
                 structure, dirsRead, filesRead, console, faults>>

\* Line 159: fs.writeFileSync throws (no permission, disk full): the file is
\* left as it was, or left truncated; the error leaves executeGenerator.
WriteFileThrows ==
  /\ pc = "write"
  /\ \/ fs' = fs
     \/ fs' = WithEntry(fs, config.outputFile, FileNode(<<>>))
  /\ writes' = Append(writes, structure)
  /\ pc' = "failed"
  /\ UNCHANGED <<options, readdirOrder, output, treeLines, files, index,
                 structure, dirsRead, filesRead, console, faults>>

\* Lines 161-162: the two success lines.
LogSuccess ==
  /\ pc = "log1"
  /\ console' = Append(console, <<"P","r","o","j","e","c","t"," ","s","t","r","u","c","t","u","r","e"," ","g","e","n","e","r","a","t","e","d"," ","s","u","c","c","e","s","s","f","u","l","l","y","!">>)
  /\ pc' = "log2"
  /\ UNCHANGED <<fs, options, readdirOrder, output, treeLines, files, index,
                 structure, dirsRead, filesRead, writes, faults>>

LogOutputPath ==
  /\ pc = "log2"
  /\ console' = Append(console, <<"O","u","t","p","u","t"," ","s","a","v","e","d"," ","t","o",":"," ">> \o config.outputFile)
  /\ pc' = "done"
  /\ UNCHANGED <<fs, options, readdirOrder, output, treeLines, files, index,
                 structure, dirsRead, filesRead, writes, faults>>

----------------------------------------------------------------------------
(* The environment: a listed file is removed, or made unreadable, before  *)
(* files.forEach reaches it.                                               *)

MaxFaults == 1

Pending == {files[i] : i \in index..Len(files)}

FileVanishes ==
  /\ pc = "files"
  /\ faults < MaxFaults
  /\ \E p \in Pending \cap DOMAIN fs :
       fs' = [q \in DOMAIN fs \ {p} |-> fs[q]]
  /\ faults' = faults + 1
  /\ UNCHANGED <<options, readdirOrder, pc, output, treeLines, files, index,
                 structure, dirsRead, filesRead, writes, console>>

FileLocked ==
  /\ pc = "files"
  /\ faults < MaxFaults
  /\ \E p \in Pending \cap DOMAIN fs :
       /\ fs[p].mode = "ok"
       /\ fs' = [fs EXCEPT ![p].mode = "denied"]
  /\ faults' = faults + 1
  /\ UNCHANGED <<options, readdirOrder, pc, output, treeLines, files, index,
                 structure, dirsRead, filesRead, writes, console>>

Next ==
  \/ GenerateTreeSection
  \/ CollectFiles
  \/ ProcessFile
  \/ ReturnStructure
  \/ WriteFile
  \/ WriteFileThrows
  \/ LogSuccess
  \/ LogOutputPath
  \/ FileVanishes
  \/ FileLocked

----------------------------------------------------------------------------
(* The inputs: a directory tree and an options object *)

\* The function with the given <<path, node>> pairs.
MkTree(entries) ==
  [p \in {e[1] : e \in entries} |-> (CHOOSE e \in entries : e[1] = p)[2]]

\* Every entry below the root has its directory in the tree.
Closed(paths) == \A p \in paths : dirname(p) = projectRoot \/ dirname(p) \in paths

\* The trees of at most max entries among the candidates.
TreesOver(candidates, max) ==
  {MkTree(E) : E \in {X \in SUBSET candidates :
                        Cardinality(X) <= max /\ Closed({e[1] : e \in X})}}

Fresh ==
  /\ pc = "start"
  /\ output = <<>>
  /\ treeLines = <<>>
  /\ files = <<>>
  /\ index = 1
  /\ structure = <<>>
  /\ dirsRead = {}
  /\ filesRead = {}
  /\ writes = <<>>
  /\ console = <<>>
  /\ faults = 0

\* Trees with the names the exclusion rules look at.
MaxEntries == 4

Candidates ==
  {<<<<"a",".","j","s">>, FileNode(<<"h","i">>)>>,
   <<<<"b",".","J","S">>, FileNode(<<"x","\n">>)>>,
   <<<<"l","o","g","o",".","p","n","g">>, FileNode(<<"P","N","G">>)>>,
   <<<<".","e","n","v">>, FileNode(<<"K","=","1">>)>>,
   <<<<"m","y",".","e","n","v",".","m","d">>, FileNode(<<"#">>)>>,
   <<<<"p","r","o","j","e","c","t","-","s","t","r","u","c","t","u","r","e",".","j","s">>, FileNode(<<"j","s">>)>>,
   <<<<"p","r","o","j","e","c","t","-","s","t","r","u","c","t","u","r","e",".","t","x","t">>, FileNode(<<"o","l","d">>)>>,
   <<<<"s","r","c">>, DirNode("ok")>>,
   <<<<"s","r","c","/","a",".","j","s">>, FileNode(<<>>)>>,
   <<<<"s","r","c","/",".","e","n","v">>, FileNode(<<"K","=","2">>)>>,
   <<<<"s","r","c","/","p","r","o","j","e","c","t","-","s","t","r","u","c","t","u","r","e",".","j","s">>, FileNode(<<"j","s">>)>>,
   <<<<"s","r","c","/","n","o","d","e","_","m","o","d","u","l","e","s">>, DirNode("ok")>>,
   <<<<"s","r","c","/","n","o","d","e","_","m","o","d","u","l","e","s","/","y",".","j","s">>, FileNode(<<"y">>)>>,
   <<<<"n","o","d","e","_","m","o","d","u","l","e","s">>, DirNode("denied")>>,
   <<<<"n","o","d","e","_","m","o","d","u","l","e","s","/","x",".","j","s">>, FileNode(<<"x">>)>>,
   <<<<"p","r","i","v">>, DirNode("denied")>>}

OptionsChoices ==
  {[outputFile |-> <<"p","r","o","j","e","c","t","-","s","t","r","u","c","t","u","r","e",".","t","x","t">>],
   [outputFile |-> <<"o","u","t",".","t","x","t">>],
   [excludeFiles |-> <<<<"l","o","g","o",".","p","n","g">>, <<"s","e","c","r","e","t","s",".","e","n","v">>>>, excludeDirs |-> <<<<"s","r","c">>>>],
   [textExtensions |-> <<<<".","J","S">>, <<".","m","d">>>>]}

Init ==
  /\ fs \in TreesOver(Candidates, MaxEntries)
  /\ options \in OptionsChoices
  /\ readdirOrder \in {"ascending", "descending"}
  /\ Fresh

Spec == Init /\ [][Next]_vars

\* Trees with the shapes the tree rendering distinguishes.
MaxTreeEntries == 5

TreeCandidates ==
  {<<<<"a",".","j","s">>, FileNode(<<>>)>>,
   <<<<"B",".","m","d">>, FileNode(<<>>)>>,
   <<<<".","e","n","v">>, FileNode(<<>>)>>,
   <<<<"p","r","o","j","e","c","t","-","s","t","r","u","c","t","u","r","e",".","j","s">>, FileNode(<<>>)>>,
   <<<<"Z","e","d">>, DirNode("ok")>>,
   <<<<"l","i","b">>, DirNode("ok")>>,
   <<<<"l","i","b","/","u",".","j","s">>, FileNode(<<>>)>>,
   <<<<"n","o","d","e","_","m","o","d","u","l","e","s">>, DirNode("ok")>>,
   <<<<"s","r","c">>, DirNode("ok")>>,
   <<<<"s","r","c","/","m",".","j","s">>, FileNode(<<>>)>>,
   <<<<"s","r","c","/","i","n">>, DirNode("ok")>>,
   <<<<"s","r","c","/","i","n","/","k",".","j","s">>, FileNode(<<>>)>>,
   <<<<"s","r","c","/","i","n","/","j",".","j","s">>, FileNode(<<>>)>>}

TreeOptionsChoices ==
  {[outputFile |-> <<"p","r","o","j","e","c","t","-","s","t","r","u","c","t","u","r","e",".","t","x","t">>],
   [excludeFiles |-> <<<<"B",".","m","d">>>>, excludeDirs |-> <<<<"l","i","b">>>>]}

InitTree ==
  /\ fs \in TreesOver(TreeCandidates, MaxTreeEntries)
  /\ options \in TreeOptionsChoices
  /\ readdirOrder \in {"ascending", "descending"}
  /\ Fresh

SpecTree == InitTree /\ [][Next]_vars

\* Trees of text files with every short content.
MaxContentLen == 2

RECURSIVE StringsUpTo(_, _)
StringsUpTo(alphabet, n) ==
  IF n = 0 THEN {<<>>}
  ELSE LET shorter == StringsUpTo(alphabet, n - 1)
       IN shorter \cup {Append(s, c) : s \in shorter, c \in alphabet}

Contents ==
  StringsUpTo({"x", "\n"}, MaxContentLen)
  \cup {<<"F","I","L","E",":"," ","b",".","m","d">>, <<"x","\n","\n","F","I","L","E",":"," ","b",".","m","d","\n","-","-","-","-","-","-","-","-","-","-","-","-","-","-","-","-","-","-","-","-","-","-","-","-","-","-","-","-","-","-","-","-","-","-","-","-","-","-","-","-","\n","y","\n","\n","\n">>}

ContentTrees ==
  {MkTree({<<<<"a",".","t","x","t">>, FileNode(c)>>}) : c \in Contents}
  \cup {MkTree({<<<<"a",".","t","x","t">>, FileNode(c)>>, <<<<"b",".","m","d">>, FileNode(d)>>}) :
          c \in Contents, d \in Contents}
  \cup {MkTree({<<<<"a",".","t","x","t">>, FileNode(c)>>, <<<<"l","o","g","o",".","p","n","g">>, FileNode(d)>>}) :
          c \in Contents, d \in {<<"P","N","G">>}}

InitContent ==
  /\ fs \in ContentTrees
  /\ options \in {[outputFile |-> <<"p","r","o","j","e","c","t","-","s","t","r","u","c","t","u","r","e",".","t","x","t">>]}
  /\ readdirOrder \in {"ascending", "descending"}
  /\ Fresh

SpecContent == InitContent /\ [][Next]_vars

----------------------------------------------------------------------------
(* Reading the report *)

\* The index in `output` of the "FILE:" line of the k-th block.
BlockAt(k) == Len(HeaderLines) + Len(treeLines) + 1 + Len(ContentsLabel) + 5 * (k - 1) + 1

\* How many blocks `output` holds.
NBlocks == index - 1

FilePrefix == <<"F","I","L","E",":"," ">>

\* The path the k-th block names.
BlockPath(k) == SubSeq(output[BlockAt(k)], Len(FilePrefix) + 1, Len(output[BlockAt(k)]))

\* What the k-th block shows between its separator and its two blank lines.
BlockBody(k) == output[BlockAt(k) + 2]

HasTreeLine(p) == \E i \in 1..Len(treeLines) : treeLines[i].path = p

HasBlock(p) ==
  \E k \in 1..NBlocks : output[BlockAt(k)] = FilePrefix \o p

\* The directories above p, as paths.
Ancestors(p) == {SubSeq(p, 1, i - 1) : i \in {j \in 1..Len(p) : p[j] = "/"}}

Excluded(names, p) == ArrIncludes(names, basename(p))

\* String.prototype.split on one character.
RECURSIVE Split(_, _)
Split(s, c) ==
  LET at == {i \in 1..Len(s) : s[i] = c}
  IN IF at = {} THEN <<s>>
     ELSE LET k == CHOOSE i \in at : \A j \in at : i <= j
          IN <<SubSeq(s, 1, k - 1)>> \o Split(SubSeq(s, k + 1, Len(s)), c)

\* The report is assembled and nothing has touched the tree since it began.
Assembled == pc = "write" /\ faults = 0

----------------------------------------------------------------------------
(* C1 *)

\* C1: a file named config.outputFile, or named as the tool's own source,
\* anywhere under the scan root, has no tree line and no "FILE:" block in
\* the report.
C1_OwnFilesNeverReported ==
  Assembled =>
    \A p \in DOMAIN fs :
      (isFile(p) /\ basename(p) \in {config.outputFile, SelfName})
        => ~HasTreeLine(p) /\ ~HasBlock(p)

----------------------------------------------------------------------------
(* C2 *)

\* C2: for every name d of config.excludeDirs, the report has no tree line
\* for a directory named d nor for anything beneath one, and no "FILE:"
\* block for a file beneath one; neither walk lists such a directory.
C2_ExcludedDirsLeftOut ==
  /\ \A i \in 1..Len(treeLines) :
       /\ \A q \in Ancestors(treeLines[i].path) : ~Excluded(config.excludeDirs, q)
       /\ treeLines[i].isDir => ~Excluded(config.excludeDirs, treeLines[i].path)
  /\ \A k \in 1..NBlocks :
       \A q \in Ancestors(BlockPath(k)) : ~Excluded(config.excludeDirs, q)
  /\ \A d \in dirsRead :
       \A q \in Ancestors(d) \cup {d} : ~Excluded(config.excludeDirs, q)

\* A report was assembled over a tree with a file beneath an excluded
\* directory, two levels down, next to files that are reported.
C2_Witness ==
  /\ Assembled
  /\ NBlocks > 0
  /\ Len(treeLines) > 0
  /\ \E p \in DOMAIN fs :
       /\ isFile(p)
       /\ Excluded(config.excludeDirs, dirname(p))
       /\ dirname(dirname(p)) # projectRoot

----------------------------------------------------------------------------
(* C6 *)

\* C6: a file whose base name is in config.excludeFiles, at the root or at
\* any depth, has no tree line and no "FILE:" block.
C6_ExcludedFilesLeftOut ==
  /\ \A i \in 1..Len(treeLines) :
       ~treeLines[i].isDir => ~Excluded(config.excludeFiles, treeLines[i].path)
  /\ \A k \in 1..NBlocks : ~Excluded(config.excludeFiles, BlockPath(k))

\* A report was assembled over a tree that holds an excluded file below the
\* root, in a directory the tree shows.
C6_Witness ==
  /\ Assembled
  /\ \E p \in DOMAIN fs :
       /\ isFile(p)
       /\ Excluded(config.excludeFiles, p)
       /\ dirname(p) # projectRoot
       /\ HasTreeLine(dirname(p))

----------------------------------------------------------------------------
(* C10 *)

\* C10: over a tree of regular files and directories, a file has a "FILE:"
\* block if and only if it has a line in the tree of the same report.
C10_TreeAndContentsAgree ==
  Assembled =>
    \A p \in DOMAIN fs : isFile(p) => (HasBlock(p) <=> HasTreeLine(p))

----------------------------------------------------------------------------
(* C3 *)

\* Whether the extension of filePath matches a member of textExtensions,
\* ignoring case.
MatchesIgnoringCase(filePath) ==
  \E i \in 1..Len(config.textExtensions) :
    toLowerCase(config.textExtensions[i]) = toLowerCase(extname(filePath))

\* C3: a file whose extension is absent from config.textExtensions shows
\* exactly the placeholder and is never read; getFileType answers 'text'
\* exactly when the extension matches a member of textExtensions ignoring
\* case.
C3_TextExactlyWhenExtensionMatches ==
  /\ \A k \in 1..NBlocks :
       ~MatchesIgnoringCase(BlockPath(k))
         => BlockBody(k) = Placeholder /\ BlockPath(k) \notin filesRead
  /\ \A i \in 1..Len(files) :
       getFileType(files[i]) = "text" <=> MatchesIgnoringCase(files[i])

----------------------------------------------------------------------------
(* C4 *)

ErrorLine(p) == <<"[","E","R","R","O","R"," ","R","E","A","D","I","N","G"," ","F","I","L","E",":"," ">> \o readFileMessage(p) \o <<"]">>

\* C4: a file that is gone or unreadable when the assembler comes to read
\* it does not end the run: its block shows "[ERROR READING FILE: <message>]"
\* for content, followed by the two blank lines, and every block, the later
\* ones too, is complete and shows what its file holds.
C4_ReadFailureIsAnnotated ==
  /\ pc \in {"files", "write"} =>
       /\ Len(output) = BlockAt(NBlocks + 1) - 1
       /\ \A k \in 1..NBlocks :
            /\ output[BlockAt(k)] = FilePrefix \o files[k]
            /\ output[BlockAt(k) + 1] = Separator
            /\ output[BlockAt(k) + 3] = <<>>
            /\ output[BlockAt(k) + 4] = <<>>
            /\ BlockBody(k) =
                 IF getFileType(files[k]) # "text" THEN Placeholder
                 ELSE IF readFileThrows(files[k]) THEN ErrorLine(files[k])
                 ELSE fs[files[k]].content
  /\ faults > 0 => pc \in {"files", "write", "log1", "log2", "done"} \/ writes # <<>>

\* A text file went missing after it was listed, its block shows the error
\* line, and the file after it shows its content.
C4_Witness ==
  /\ pc = "write"
  /\ \E k \in 1..(NBlocks - 1) :
       /\ getFileType(files[k]) = "text"
       /\ files[k] \notin DOMAIN fs
       /\ BlockBody(k) = <<"[","E","R","R","O","R"," ","R","E","A","D","I","N","G"," ","F","I","L","E",":"," ","E","N","O","E","N","T","]">>
       /\ getFileType(files[k + 1]) = "text"
       /\ BlockBody(k + 1) = fs[files[k + 1]].content
       /\ BlockBody(k + 1) # <<>>

----------------------------------------------------------------------------
(* C5 *)

\* The lines of the report as a reader of the saved file sees them.
ReportLines == Split(structure, "\n")

\* How many lines of the report the given elements of `output` take.
RECURSIVE LinesIn(_)
LinesIn(elements) ==
  IF elements = <<>> THEN 0
  ELSE 1 + Cardinality({i \in 1..Len(Head(elements)) : Head(elements)[i] = "\n"})
       + LinesIn(Tail(elements))

\* The first and the last line of the k-th block in the report.
BlockFirstLine(k) == LinesIn(SubSeq(output, 1, BlockAt(k) - 1)) + 1

BlockLastLine(k) == LinesIn(SubSeq(output, 1, BlockAt(k) + 4))

----------------------------------------------------------------------------
(* C7 *)

\* C7: a run writes config.outputFile at most once, and only when the whole
\* report is assembled; a success line is printed only once that write has
\* completed; a failure ends the run with no success line, and no step but
\* the write touches the tree, so a failed traversal leaves outputFile as
\* it was.
C7_OneWriteAtTheEnd ==
  [][/\ Len(writes') <= 1
     /\ writes' # writes =>
          /\ pc = "write"
          /\ index = Len(files) + 1
          /\ Len(output) = BlockAt(Len(files) + 1) - 1
          /\ writes' = <<ArrJoin(output, <<"\n">>)>>
     /\ console' # console =>
          /\ writes = <<structure>>
          /\ config.outputFile \in DOMAIN fs
          /\ fs[config.outputFile] = FileNode(structure)
     /\ pc # "failed"
     /\ pc' = "failed" => console' = <<>>
     /\ (pc # "write" /\ faults' = faults) => fs' = fs]_vars

\* A run ended well: one write, then the two success lines.
C7_Witness ==
  /\ pc = "done"
  /\ Len(writes) = 1
  /\ Len(console) = 2
  /\ NBlocks > 0

----------------------------------------------------------------------------
(* C8 and C9 *)

\* The directories generateTree was called on.
RenderedDirs ==
  {projectRoot} \cup {treeLines[i].path : i \in {j \in 1..Len(treeLines) : treeLines[j].isDir}}

\* The lines of the immediate children of directory d.
ChildLines(d) == {i \in 1..Len(treeLines) : dirname(treeLines[i].path) = d}

EligibleFiles(d) ==
  {p \in DOMAIN fs : /\ dirname(p) = d
                     /\ isFile(p)
                     /\ ~Excluded(config.excludeFiles, p)
                     /\ basename(p) # SelfName}

EligibleDirs(d) ==
  {p \in DOMAIN fs : dirname(p) = d /\ isDirectory(p) /\ ~Excluded(config.excludeDirs, p)}

\* C8: the lines of a rendered directory's children are its eligible files
\* in ascending order, then its eligible directories in ascending order,
\* each directory name with "/"; the last of them, and only it, carries the
\* corner glyph; a directory with no eligible children has no lines.
C8_FilesThenDirsLastIsCorner ==
  pc = "collect" =>
    /\ \A i \in 1..Len(treeLines) : dirname(treeLines[i].path) \in RenderedDirs
    /\ \A d \in RenderedDirs :
         LET K == ChildLines(d)
         IN /\ {treeLines[i].path : i \in {j \in K : ~treeLines[j].isDir}} = EligibleFiles(d)
            /\ {treeLines[i].path : i \in {j \in K : treeLines[j].isDir}} = EligibleDirs(d)
            /\ Cardinality(K) = Cardinality(EligibleFiles(d)) + Cardinality(EligibleDirs(d))
            /\ \A i \in K :
                 /\ treeLines[i].name =
                      basename(treeLines[i].path) \o (IF treeLines[i].isDir THEN <<"/">> ELSE <<>>)
                 /\ treeLines[i].glyph =
                      IF \A j \in K : j <= i THEN Corner ELSE Tee
                 /\ \A j \in K :
                      i < j =>
                        /\ treeLines[i].isDir => treeLines[j].isDir
                        /\ treeLines[i].isDir = treeLines[j].isDir =>
                             LessStr(basename(treeLines[i].path), basename(treeLines[j].path))

\* A rendered directory has two eligible files and two eligible
\* directories, one of them with no eligible children.
C8_Witness ==
  /\ pc = "collect"
  /\ \E d \in RenderedDirs :
       /\ Cardinality(EligibleFiles(d)) >= 2
       /\ Cardinality(EligibleDirs(d)) >= 2
       /\ \E e \in EligibleDirs(d) : ChildLines(e) = {}

Depth(p) == Cardinality({i \in 1..Len(p) : p[i] = "/"})

StartsWith(s, t) == Len(t) <= Len(s) /\ SubSeq(s, 1, Len(t)) = t

\* Whether directory p sorts last among the eligible directories beside it.
IsLastDir(p) ==
  \A q \in EligibleDirs(dirname(p)) : q = p \/ LessStr(basename(q), basename(p))

\* C9: the lines of what lies beneath a directory child c follow c's line
\* at once and without a gap, each beginning with c's prefix and then four
\* spaces when c is the last directory of its parent, a bar and three spaces
\* otherwise; a line at depth k has a prefix of 4*k characters.
C9_DescendantsFollowWithPrefix ==
  pc = "collect" =>
    /\ \A i \in 1..Len(treeLines) :
         treeLines[i].isDir =>
           LET c == treeLines[i]
               D == {j \in 1..Len(treeLines) : c.path \in Ancestors(treeLines[j].path)}
               below == c.prefix \o (IF IsLastDir(c.path) THEN <<" "," "," "," ">> ELSE <<"U+2502"," "," "," ">>)
           IN /\ D = (i + 1)..(i + Cardinality(D))
              /\ \A j \in D : StartsWith(treeLines[j].prefix, below)
    /\ \A j \in 1..Len(treeLines) :
         Len(treeLines[j].prefix) = 4 * Depth(treeLines[j].path)

\* A directory that is not the last of its parent has lines beneath it, and
\* the tree has a line two levels down.
C9_Witness ==
  /\ pc = "collect"
  /\ \E i \in 1..Len(treeLines) :
       /\ treeLines[i].isDir
       /\ ~IsLastDir(treeLines[i].path)
       /\ \E j \in 1..Len(treeLines) : treeLines[i].path \in Ancestors(treeLines[j].path)
  /\ \E j \in 1..Len(treeLines) : Depth(treeLines[j].path) = 2

====
